---- MODULE Spec2Model ----
(***************************************************************************)
(* TidyCPU (src/tidycpu.py): telemetry -> classification -> rebalance plan *)
(* -> confirmation prompt -> affinity application.                         *)
(*                                                                         *)
(* The specifications share the variables below; each one drives the       *)
(* variables of its own part and leaves the others at their idle values:   *)
(*   Spec       main() in standard and live mode, up to its exit            *)
(*   SpecPlan   the loop of build_rebalance_plan, one process per step     *)
(*   SpecUsage  get_core_usage on a pair of counter snapshots              *)
(*   SpecInput  read_proc_stat on a counter file, mask_to_cores on a mask  *)
(*   SpecCpulist  cores_to_cpulist on a list of core-ids, parse_cpulist on *)
(*              its result                                                 *)
(***************************************************************************)
EXTENDS Integers, Sequences, FiniteSets, TLC

VARIABLES
    pc,          \* position of the code being run
    raised,      \* the exception that ended the code being run, "" if none
    core_stats,  \* build_rebalance_plan: its core_stats argument
    nprocs,      \* build_rebalance_plan: len(processes)
    idx,         \* build_rebalance_plan: processes visited by the for loop
    cold_iter,   \* build_rebalance_plan: what is left of cold_iter
    proc,        \* build_rebalance_plan: the process of the last iteration
    emitted,     \* build_rebalance_plan: the action appended by the last iteration
    n_actions,   \* build_rebalance_plan: len(actions)
    to_concat,   \* build_rebalance_plan: to_cores of all actions, concatenated
    n_from,      \* build_rebalance_plan: sum of len(from_cores) over all actions
    snap1,       \* get_core_usage: first read_proc_stat() result
    snap2,       \* get_core_usage: second read_proc_stat() result
    stats,       \* get_core_usage: the returned list of CoreStat
    stat_file,   \* read_proc_stat: the lines of /proc/stat
    stat_cores,  \* read_proc_stat: the returned dict
    hex_mask,    \* mask_to_cores: its hex_mask argument
    mask_cores,  \* mask_to_cores: the returned list
    cores_arg,   \* cores_to_cpulist: its cores argument
    cpulist_str, \* parse_cpulist: its cpulist_str argument
    parsed,      \* parse_cpulist: the returned list
    ps_result,   \* main: what run() returned for the ps inventory query
    queries,     \* main: what run() returned for each taskset -p query made
    processes,   \* main: the list get_top_processes returned
    actions,     \* main: the plan, updated in place by apply_action
    answer,      \* main: what the prompt read: an exception or the normalised text
    apply_i,     \* main: actions handed to apply_action so far
    last_run,    \* main: what run() returned to the last apply_action
    calls,       \* the taskset -pc commands issued, in order
    pinned,      \* the affinity lists set by the taskset -pc commands that succeeded
    exit_code,   \* exit status of the run, -1 while it runs
    live,        \* main: args.live or args.pid
    fatal        \* the message die() was called with, "" if it was not called

planVars == <<core_stats, nprocs, idx, cold_iter, proc, emitted, n_actions, to_concat,
              n_from>>

usageVars == <<snap1, snap2, stats>>

inputVars == <<stat_file, stat_cores, hex_mask, mask_cores, cores_arg, cpulist_str, parsed>>

mainVars == <<ps_result, queries, processes, actions, answer, apply_i, last_run,
              calls, pinned, exit_code, live, fatal>>

vars == <<pc, raised, planVars, usageVars, inputVars, mainVars>>

(***************************************************************************)
(* Bounds and program constants                                            *)
(***************************************************************************)
MaxCores == 4

TopN == 5

Labels == {"HOT", "WARM", "COLD"}

None == [none |-> TRUE]

(***************************************************************************)
(* Python helpers                                                          *)
(***************************************************************************)
Min(a, b) == IF a <= b THEN a ELSE b

\* s[:n]
Take(s, n) == SubSeq(s, 1, Min(n, Len(s)))

\* s[n:]
Drop(s, n) == SubSeq(s, Min(n, Len(s)) + 1, Len(s))

\* s * n
RECURSIVE Repeat(_, _)
Repeat(s, n) == IF n <= 0 THEN << >> ELSE s \o Repeat(s, n - 1)

SeqRange(s) == {s[i] : i \in DOMAIN s}

\* sorted(S) for a finite set of integers
RECURSIVE SortedSeq(_)
SortedSeq(S) ==
    IF S = {} THEN << >>
    ELSE LET m == CHOOSE x \in S : \A y \in S : x <= y
         IN  <<m>> \o SortedSeq(S \ {m})

(***************************************************************************)
(* Idle values of the variables a specification does not drive             *)
(***************************************************************************)
PlanIdle ==
    /\ core_stats = << >>
    /\ nprocs = 0
    /\ idx = 0
    /\ cold_iter = << >>
    /\ proc = None
    /\ emitted = None
    /\ n_actions = 0
    /\ to_concat = << >>
    /\ n_from = 0

UsageIdle ==
    /\ snap1 = << >>
    /\ snap2 = << >>
    /\ stats = << >>

InputIdle ==
    /\ stat_file = << >>
    /\ stat_cores = << >>
    /\ hex_mask = << >>
    /\ mask_cores = << >>
    /\ cores_arg = << >>
    /\ cpulist_str = << >>
    /\ parsed = << >>

MainIdle ==
    /\ ps_result = None
    /\ queries = << >>
    /\ processes = << >>
    /\ actions = << >>
    /\ answer = [asked |-> FALSE, exc |-> "", text |-> << >>]
    /\ apply_i = 0
    /\ last_run = None
    /\ calls = << >>
    /\ pinned = << >>
    /\ exit_code = -1
    /\ live = FALSE
    /\ fatal = ""

(***************************************************************************)
(* Step 1 - telemetry: get_core_usage                                      *)
(***************************************************************************)
UsageMaxCores == 2

\* one parsed cpuN line of /proc/stat: the dict read_proc_stat builds
Counters(u, n, s, i, w, q, sq, st) ==
    [user |-> u, nice |-> n, system |-> s, idle |-> i,
     iowait |-> w, irq |-> q, softirq |-> sq, steal |-> st]

\* the counter values the snapshots are drawn from: their pairwise deltas
\* hit usage 80.0 and 40.0 exactly, values just below both thresholds,
\* a zero total delta and counters that run backwards
CounterRecs ==
    { Counters(0, 0, 0, 0, 0, 0, 0, 0),
      Counters(4, 0, 0, 1, 0, 0, 0, 0),
      Counters(2, 0, 0, 2, 1, 0, 0, 0),
      Counters(323, 0, 0, 81, 0, 0, 0, 0),
      Counters(0, 0, 161, 242, 0, 0, 0, 0),
      Counters(10, 1, 2, 3, 1, 1, 1, 1),
      Counters(9, 0, 0, 0, 0, 0, 0, 0) }

\* a read_proc_stat() result: core-id -> counters, for any set of core-ids
Snapshots == UNION {[S -> CounterRecs] : S \in SUBSET (0 .. UsageMaxCores - 1)}

\* sum(s.values())
total_of(s) ==
    s.user + s.nice + s.system + s.idle + s.iowait + s.irq + s.softirq + s.steal

\* usage >= bound, for usage = (1.0 - d_idle / d_total) * 100.0 and d_total # 0,
\* in exact arithmetic
usage_at_least(d_idle, d_total, bound) ==
    IF d_total > 0
    THEN 100 * (d_total - d_idle) >= bound * d_total
    ELSE 100 * (d_total - d_idle) <= bound * d_total

\* the if/elif/else without the zero-delta case of the usage before it
label_of_unguarded(d_idle, d_total) ==
    IF usage_at_least(d_idle, d_total, 80) THEN "HOT"
    ELSE IF usage_at_least(d_idle, d_total, 40) THEN "WARM"
    ELSE "COLD"

\* the if/elif/else on the unrounded usage
label_of(d_idle, d_total) ==
    IF d_total = 0 THEN "COLD"
    ELSE IF usage_at_least(d_idle, d_total, 80) THEN "HOT"
    ELSE IF usage_at_least(d_idle, d_total, 40) THEN "WARM"
    ELSE "COLD"

\* round(num / den, 0) for den > 0, halves to even
round_div(num, den) ==
    LET q == num \div den
        r == num - q * den
    IN  IF 2 * r < den THEN q
        ELSE IF 2 * r > den THEN q + 1
        ELSE IF q % 2 = 0 THEN q ELSE q + 1

\* round(usage, 1) for usage = (1.0 + d_idle / d_total) * 100.0
usage_x10_plus(d_idle, d_total) ==
    IF d_total = 0 THEN 0
    ELSE IF d_total > 0 THEN round_div(1000 * (d_total + d_idle), d_total)
    ELSE round_div(1000 * (0 - d_idle - d_total), 0 - d_total)

\* round(usage, 1), in tenths of a percent
usage_x10(d_idle, d_total) ==
    IF d_total = 0 THEN 0
    ELSE IF d_total > 0 THEN round_div(1000 * (d_total - d_idle), d_total)
    ELSE round_div(1000 * (d_idle - d_total), 0 - d_total)

\* the loop body of get_core_usage for one core-id of snap1; physical_id and
\* core_within_physical come from the topology and are only displayed
core_stat(cid, s1, s2) ==
    LET idle1  == s1.idle + s1.iowait
        idle2  == s2.idle + s2.iowait
        d_idle == idle2 - idle1
        d_total == total_of(s2) - total_of(s1)
        x10 == usage_x10(d_idle, d_total)
    IN  [core_id |-> cid, usage |-> x10, label |-> label_of(d_idle, d_total)]

\* for cid in sorted(snap1.keys()): s1, s2 = snap1[cid], snap2[cid] ...
\* snap2[cid] raises KeyError for a core-id snap2 lacks
get_core_usage(a, b) ==
    LET cids == SortedSeq(DOMAIN a)
    IN  IF \E c \in DOMAIN a : c \notin DOMAIN b
        THEN [raised |-> "KeyError", stats |-> << >>]
        ELSE [raised |-> "",
              stats |-> [i \in DOMAIN cids |-> core_stat(cids[i], a[cids[i]], b[cids[i]])]]

InitUsage ==
    /\ pc = "usage"
    /\ raised = ""
    /\ snap1 \in Snapshots
    /\ snap2 \in Snapshots
    /\ stats = << >>
    /\ PlanIdle
    /\ InputIdle
    /\ MainIdle

GetCoreUsage ==
    /\ pc = "usage"
    /\ LET r == get_core_usage(snap1, snap2)
       IN  /\ raised' = r.raised
           /\ stats' = r.stats
    /\ pc' = "usage_done"
    /\ UNCHANGED <<snap1, snap2, planVars, inputVars, mainVars>>

NextUsage == GetCoreUsage

SpecUsage == InitUsage /\ [][NextUsage]_vars

(***************************************************************************)
(* Input parsing: int(), read_proc_stat, mask_to_cores.  A text is a       *)
(* sequence of one-character strings.                                      *)
(***************************************************************************)
MaxFields == 8

MaxMaskLen == 3

\* the outcome of int(): a value, or ValueError raised
IntOk(n) == [ok |-> TRUE, val |-> n]

ValueError == [ok |-> FALSE, val |-> 0]

HexDigits == <<"0", "1", "2", "3", "4", "5", "6", "7", "8", "9",
               "a", "b", "c", "d", "e", "f">>

\* the value of a digit character in the given base, -1 if it is none
digit_val(ch, base) ==
    LET up == [c \in {"A", "B", "C", "D", "E", "F"} |->
                 CASE c = "A" -> "a" [] c = "B" -> "b" [] c = "C" -> "c"
                   [] c = "D" -> "d" [] c = "E" -> "e" [] c = "F" -> "f"]
        lc == IF ch \in DOMAIN up THEN up[ch] ELSE ch
        hit == {i \in 1 .. base : HexDigits[i] = lc}
    IN  IF hit = {} THEN -1 ELSE (CHOOSE i \in hit : TRUE) - 1

RECURSIVE digits_val(_, _, _)
digits_val(txt, base, acc) ==
    IF txt = << >> THEN acc
    ELSE digits_val(Tail(txt), base, acc * base + digit_val(Head(txt), base))

\* int(txt, base) for a text without blanks: an optional sign and one or more
\* digits of the base; anything else raises ValueError
py_int(txt, base) ==
    LET signed == txt # << >> /\ Head(txt) \in {"+", "-"}
        body == IF signed THEN Tail(txt) ELSE txt
    IN  IF body = << >> \/ \E i \in DOMAIN body : digit_val(body[i], base) < 0
        THEN ValueError
        ELSE IF signed /\ Head(txt) = "-" THEN IntOk(0 - digits_val(body, base, 0))
        ELSE IntOk(digits_val(body, base, 0))

\* mask & (1 << i) for a Python int (two's complement for a negative mask)
bit_set(mask, i) ==
    IF mask >= 0 THEN (mask \div (2 ^ i)) % 2 = 1
    ELSE ((0 - mask - 1) \div (2 ^ i)) % 2 = 0

\* [i for i in range(num_cores) if mask & (1 << i)]
bits_to_cores(mask, num_cores) ==
    SelectSeq([i \in 1 .. num_cores |-> i - 1], LAMBDA c : bit_set(mask, c))

\* mask_to_cores: int(hex_mask.replace(",", ""), 16), then the set bits below
\* num_cores; [] on ValueError
mask_to_cores(mask, num_cores) ==
    LET m == py_int(SelectSeq(mask, LAMBDA ch : ch # ","), 16)
    IN  IF ~m.ok THEN << >> ELSE bits_to_cores(m.val, num_cores)

\* one line of /proc/stat: a per-core line "cpu<cid> <fields>" that the
\* regular expression matches, or any other line
CpuLine(cid, fields) == [cid |-> cid, fields |-> fields]

OtherLine == [other |-> TRUE]

\* the dict entry built from vals, len(vals) >= 4
counters_of(vals) ==
    [user |-> vals[1].val, nice |-> vals[2].val,
     system |-> vals[3].val, idle |-> vals[4].val,
     iowait |-> IF Len(vals) > 4 THEN vals[5].val ELSE 0,
     irq |-> IF Len(vals) > 5 THEN vals[6].val ELSE 0,
     softirq |-> IF Len(vals) > 6 THEN vals[7].val ELSE 0,
     steal |-> IF Len(vals) > 7 THEN vals[8].val ELSE 0]

\* the for loop of read_proc_stat over the lines left, cores being the dict
\* built so far: list(map(int, ...)) raises ValueError on a field that is no
\* integer, vals[0..3] raise IndexError on a short line; neither is caught
RECURSIVE read_lines(_, _)
read_lines(lines, cores) ==
    IF lines = << >> THEN [raised |-> "", cores |-> cores]
    ELSE LET line == Head(lines)
         IN  IF line = OtherLine THEN read_lines(Tail(lines), cores)
             ELSE LET vals == [i \in DOMAIN line.fields |-> py_int(line.fields[i], 10)]
                  IN  IF \E i \in DOMAIN vals : ~vals[i].ok
                      THEN [raised |-> "ValueError", cores |-> cores]
                      ELSE IF Len(vals) < 4
                      THEN [raised |-> "IndexError", cores |-> cores]
                      ELSE read_lines(Tail(lines),
                               [c \in DOMAIN cores \cup {line.cid} |->
                                  IF c = line.cid THEN counters_of(vals) ELSE cores[c]])

read_proc_stat(file) == read_lines(file, << >>)

\* the field texts the lines are drawn from
FieldTexts == {<<"7">>, <<"1", "2">>, <<"x">>}

FieldLists == UNION {[1 .. n -> FieldTexts] : n \in 0 .. MaxFields}

GoodLine == CpuLine(0, <<<<"4">>, <<"0">>, <<"1">>, <<"9">>, <<"2">>>>)

\* a file of one per-core line, alone or next to a well-formed line of
\* another core and a line of another kind
StatFiles(f) ==
    {<<CpuLine(1, f)>>, <<GoodLine, OtherLine, CpuLine(1, f)>>, <<CpuLine(1, f), GoodLine>>}

MaskChars == {"1", "f", "A", "N", "/", ",", "-"}

Masks == UNION {[1 .. n -> MaskChars] : n \in 0 .. MaxMaskLen}

InitInput ==
    /\ raised = ""
    /\ stat_cores = << >>
    /\ mask_cores = << >>
    /\ \/ pc = "stat" /\ hex_mask = << >> /\ \E f \in FieldLists : stat_file \in StatFiles(f)
       \/ pc = "mask" /\ hex_mask \in Masks /\ stat_file = << >>
    /\ cores_arg = << >>
    /\ cpulist_str = << >>
    /\ parsed = << >>
    /\ PlanIdle
    /\ UsageIdle
    /\ MainIdle

ReadProcStat ==
    /\ pc = "stat"
    /\ LET r == read_proc_stat(stat_file)
       IN  /\ raised' = r.raised
           /\ stat_cores' = r.cores
    /\ pc' = "stat_done"
    /\ UNCHANGED <<stat_file, hex_mask, mask_cores, cores_arg, cpulist_str, parsed>>
    /\ UNCHANGED <<planVars, usageVars, mainVars>>

MaskToCores ==
    /\ pc = "mask"
    /\ mask_cores' = mask_to_cores(hex_mask, MaxCores)
    /\ pc' = "mask_done"
    /\ UNCHANGED <<raised, stat_file, stat_cores, hex_mask, cores_arg, cpulist_str, parsed>>
    /\ UNCHANGED <<planVars, usageVars, mainVars>>

NextInput == ReadProcStat \/ MaskToCores

SpecInput == InitInput /\ [][NextInput]_vars

(***************************************************************************)
(* Helpers: run, cores_to_cpulist                                          *)
(***************************************************************************)
\* what subprocess.run does: it completes with a status and its (stripped)
\* output, or raises TimeoutExpired or FileNotFoundError
Completed(rc, out, err) == [kind |-> "completed", rc |-> rc, out |-> out, err |-> err]

TimeoutExpired == [kind |-> "TimeoutExpired"]

FileNotFoundError == [kind |-> "FileNotFoundError"]

\* run without its except clauses: the exception of subprocess.run escapes
run_uncaught(cmd0, o) ==
    IF o.kind = "completed"
    THEN [rc |-> o.rc, out |-> o.out, err |-> o.err, raised |-> ""]
    ELSE [rc |-> -1, out |-> "", err |-> "", raised |-> o.kind]

\* run(cmd): (returncode, stdout, stderr); raised names an exception that
\* escapes run, which none of the three outcomes does
run(cmd0, o) ==
    CASE o.kind = "completed" ->
           [rc |-> o.rc, out |-> o.out, err |-> o.err, raised |-> ""]
      [] o.kind = "TimeoutExpired" ->
           [rc |-> -1, out |-> "", err |-> "Command timed out", raised |-> ""]
      [] o.kind = "FileNotFoundError" ->
           [rc |-> -1, out |-> "",
            err |-> IF cmd0 = "ps" THEN "Command not found: ps"
                    ELSE "Command not found: taskset",
            raised |-> ""]

\* str(n), n >= 0
RECURSIVE py_str(_)
py_str(n) ==
    IF n < 10 THEN <<HexDigits[n + 1]>>
    ELSE py_str(n \div 10) \o <<HexDigits[(n % 10) + 1]>>

\* str(start) if start == end else f"{start}-{end}"
range_text(start, end) ==
    IF start = end THEN py_str(start) ELSE py_str(start) \o <<"-">> \o py_str(end)

\* the for loop of cores_to_cpulist over the sorted ids left, and the final append
RECURSIVE cpulist_parts(_, _, _)
cpulist_parts(rest, start, end) ==
    IF rest = << >> THEN <<range_text(start, end)>>
    ELSE IF Head(rest) = end + 1 THEN cpulist_parts(Tail(rest), start, Head(rest))
    ELSE <<range_text(start, end)>> \o cpulist_parts(Tail(rest), Head(rest), Head(rest))

\* sep.join(parts)
RECURSIVE join(_, _)
join(parts, sep) ==
    IF parts = << >> THEN << >>
    ELSE IF Len(parts) = 1 THEN parts[1]
    ELSE parts[1] \o sep \o join(Tail(parts), sep)

cores_to_cpulist(cores) ==
    IF cores = << >> THEN << >>
    ELSE LET sorted == SortedSeq(SeqRange(cores))
         IN  join(cpulist_parts(Tail(sorted), sorted[1], sorted[1]), <<",">>)

(***************************************************************************)
(* Step 2 - get_top_processes                                              *)
(***************************************************************************)
PsSample == 20

NA == <<"N", "/", "A">>

\* a line of the ps output: one that parses to a pid, or one that is skipped
PsLine(pid) == [pid |-> pid]

BadLine == [bad |-> TRUE]

\* the outcome of re.search on the taskset -p output
Match(mask) == [matched |-> TRUE, mask |-> mask]

NoMatch == [matched |-> FALSE, mask |-> << >>]

\* process_info with a failed query read as "may run anywhere"
process_info_all_cores(pid, q, num_cores) ==
    IF q.rc # 0
    THEN [pid |-> pid, affinity_mask |-> NA,
          current_cores |-> [i \in 1 .. num_cores |-> i - 1]]
    ELSE IF q.out.matched
    THEN [pid |-> pid, affinity_mask |-> q.out.mask,
          current_cores |-> mask_to_cores(q.out.mask, num_cores)]
    ELSE [pid |-> pid, affinity_mask |-> NA, current_cores |-> << >>]

\* the ProcessInfo built from the result q of run(["taskset", "-p", pid]);
\* name, cpu_percent and threads are displayed only
process_info(pid, q, num_cores) ==
    IF q.rc # 0
    THEN [pid |-> pid, affinity_mask |-> NA, current_cores |-> << >>]
    ELSE IF q.out.matched
    THEN [pid |-> pid, affinity_mask |-> q.out.mask,
          current_cores |-> mask_to_cores(q.out.mask, num_cores)]
    ELSE [pid |-> pid, affinity_mask |-> NA, current_cores |-> << >>]

\* the for loop of get_top_processes over the ps lines left; qs are the
\* outcomes of the taskset -p commands still to come, procs and done the
\* list built and the query results seen so far
RECURSIVE top_loop(_, _, _, _, _, _)
top_loop(lines, qs, n, num_cores, procs, done) ==
    IF lines = << >> THEN [procs |-> procs, queries |-> done]
    ELSE IF Head(lines) = BadLine THEN top_loop(Tail(lines), qs, n, num_cores, procs, done)
    ELSE LET q == run("taskset", Head(qs))
             procs2 == Append(procs, process_info(Head(lines).pid, q, num_cores))
             done2 == Append(done, q)
         IN  IF Len(procs2) = n THEN [procs |-> procs2, queries |-> done2]
             ELSE top_loop(Tail(lines), Tail(qs), n, num_cores, procs2, done2)

\* get_top_processes going on with no process when ps fails
get_top_processes_no_die(ps, qs, n, num_cores) ==
    IF ps.rc # 0
    THEN [died |-> FALSE, procs |-> << >>, queries |-> << >>]
    ELSE LET r == top_loop(Take(ps.out, PsSample), qs, n, num_cores, << >>, << >>)
         IN  [died |-> FALSE, procs |-> r.procs, queries |-> r.queries]

\* get_top_processes(n, num_cores): died when die() ended the run
get_top_processes(ps, qs, n, num_cores) ==
    IF ps.rc # 0
    THEN [died |-> TRUE, procs |-> << >>, queries |-> << >>]
    ELSE LET r == top_loop(Take(ps.out, PsSample), qs, n, num_cores, << >>, << >>)
         IN  [died |-> FALSE, procs |-> r.procs, queries |-> r.queries]

(***************************************************************************)
(* Step 3 - build_rebalance_plan                                           *)
(***************************************************************************)
hot_ids(cs) == {cs[i].core_id : i \in {j \in DOMAIN cs : cs[j].label = "HOT"}}

\* cold_ids taking every core that is not HOT
cold_ids_not_hot(cs) ==
    LET colds == SelectSeq(cs, LAMBDA c : c.label # "HOT")
    IN  [i \in DOMAIN colds |-> colds[i].core_id]

cold_ids(cs) ==
    LET colds == SelectSeq(cs, LAMBDA c : c.label = "COLD")
    IN  [i \in DOMAIN colds |-> colds[i].core_id]

\* iter(cold_ids): the cold cores once, without the repetition
new_cold_iter_once(cold, n) == cold

\* iter(cold_ids * (len(processes) + 1))
new_cold_iter(cold, n) == Repeat(cold, n + 1)

\* on_hot and has_conflict of the loop body; hot and cold are the locals
\* hot_ids and cold_ids, ncores is len(core_stats)
on_hot(hot, p) == SelectSeq(p.current_cores, LAMBDA c : c \in hot)

\* has_conflict without the "already spread wide" exemption
has_conflict_any_width(hot, cold, ncores, p) ==
    /\ Len(on_hot(hot, p)) > 0
    /\ Len(cold) > 0

\* has_conflict without the test for an idle COLD core
has_conflict_no_cold_check(hot, cold, ncores, p) ==
    /\ Len(on_hot(hot, p)) > 0
    /\ Len(p.current_cores) < ncores

has_conflict(hot, cold, ncores, p) ==
    /\ Len(on_hot(hot, p)) > 0
    /\ Len(cold) > 0
    /\ Len(p.current_cores) < ncores

\* the except StopIteration branch
fallback_cores(cold, p) ==
    LET first == Take(cold, Len(p.current_cores))
    IN  IF first # << >> THEN first ELSE Take(cold, 1)

\* try: [next(cold_iter) for _ in proc.current_cores] except StopIteration: ...
\* The comprehension consumes the iterator until it raises, so an exhausted
\* draw leaves the iterator empty.
pick_cold(cold, it, p) ==
    LET want == Len(p.current_cores)
    IN  IF want <= Len(it)
        THEN [to_cores |-> Take(it, want), iter |-> Drop(it, want)]
        ELSE [to_cores |-> fallback_cores(cold, p), iter |-> << >>]

\* a RebalanceAction whose manual_only defaults to True
new_action_manual_only(p, to) ==
    [pid |-> p.pid, from_cores |-> p.current_cores, to_cores |-> to,
     manual_only |-> TRUE, error_msg |-> ""]

\* RebalanceAction(pid, name, cpu_percent, from_cores, to_cores); name and
\* cpu_percent are copied from the process and read by the printers only.
new_action(p, to) ==
    [pid |-> p.pid, from_cores |-> p.current_cores, to_cores |-> to,
     manual_only |-> FALSE, error_msg |-> ""]

\* the for loop of build_rebalance_plan over the processes left
RECURSIVE plan_loop(_, _, _, _, _)
plan_loop(hot, cold, ncores, procs, it) ==
    IF procs = << >> THEN << >>
    ELSE IF ~has_conflict(hot, cold, ncores, Head(procs))
    THEN plan_loop(hot, cold, ncores, Tail(procs), it)
    ELSE LET d == pick_cold(cold, it, Head(procs))
         IN  <<new_action(Head(procs), d.to_cores)>>
               \o plan_loop(hot, cold, ncores, Tail(procs), d.iter)

\* core_pid_map is built and never read
build_rebalance_plan(cs, procs) ==
    plan_loop(hot_ids(cs), cold_ids(cs), Len(cs), procs,
              new_cold_iter(cold_ids(cs), Len(procs)))

\* the current_cores get_top_processes can hand over for num_cores = k: what
\* mask_to_cores returns for the masks below 2^k
Affinities(k) == {bits_to_cores(m, k) : m \in 0 .. (2 ^ k) - 1}

CoreStatsOf(labels) == [i \in DOMAIN labels |-> [core_id |-> i - 1, label |-> labels[i]]]

PlanInputs == UNION {[1 .. k -> Labels] : k \in 1 .. MaxCores}

InitPlan ==
    /\ pc = "plan"
    /\ raised = ""
    /\ UsageIdle
    /\ InputIdle
    /\ MainIdle
    /\ \E labels \in PlanInputs : core_stats = CoreStatsOf(labels)
    /\ nprocs \in 0 .. TopN
    /\ idx = 0
    /\ cold_iter = new_cold_iter(cold_ids(core_stats), nprocs)
    /\ proc = None
    /\ emitted = None
    /\ n_actions = 0
    /\ to_concat = << >>
    /\ n_from = 0

\* the body of "for proc in processes" for the next process
PlanStep ==
    /\ pc = "plan"
    /\ idx < nprocs
    /\ LET hot == hot_ids(core_stats)
           cold == cold_ids(core_stats)
       IN  \E cc \in Affinities(Len(core_stats)) :
             LET p == [pid |-> idx + 1, current_cores |-> cc]
                 d == pick_cold(cold, cold_iter, p)
             IN  /\ proc' = p
                 /\ IF has_conflict(hot, cold, Len(core_stats), p)
                    THEN /\ cold_iter' = d.iter
                         /\ emitted' = new_action(p, d.to_cores)
                         /\ n_actions' = n_actions + 1
                         /\ to_concat' = to_concat \o d.to_cores
                         /\ n_from' = n_from + Len(p.current_cores)
                    ELSE /\ emitted' = None
                         /\ UNCHANGED <<cold_iter, n_actions, to_concat, n_from>>
    /\ idx' = idx + 1
    /\ pc' = "plan_next"
    /\ UNCHANGED <<core_stats, nprocs, raised, usageVars, inputVars, mainVars>>

\* back to the loop header: proc and the iteration's action are rebound there
PlanLoop ==
    /\ pc = "plan_next"
    /\ pc' = "plan"
    /\ proc' = None
    /\ emitted' = None
    /\ UNCHANGED <<core_stats, nprocs, idx, cold_iter, n_actions, to_concat, n_from>>
    /\ UNCHANGED <<raised, usageVars, inputVars, mainVars>>

\* return actions
PlanReturn ==
    /\ pc = "plan"
    /\ idx = nprocs
    /\ pc' = "planned"
    /\ UNCHANGED <<raised, planVars, usageVars, inputVars, mainVars>>

NextPlan == PlanStep \/ PlanLoop \/ PlanReturn

SpecPlan == InitPlan /\ [][NextPlan]_vars

(***************************************************************************)
(* Step 4 - apply_action, and main                                         *)
(***************************************************************************)
MaxPsLines == 2

GenericMsg == "Permission denied / kernel thread"

\* apply_action without the fallback text
apply_action_no_generic(action, r) ==
    IF r.rc # 0
    THEN [action EXCEPT !.manual_only = TRUE,
                        !.error_msg = IF r.err # "" THEN r.err ELSE r.out]
    ELSE action

\* apply_action, given the result r of run(["taskset", "-pc", cpu_list, pid])
apply_action(action, r) ==
    IF r.rc # 0
    THEN [action EXCEPT !.manual_only = TRUE,
                        !.error_msg = IF r.err # "" THEN r.err
                                      ELSE IF r.out # "" THEN r.out
                                      ELSE GenericMsg]
    ELSE action

\* text.strip()
RECURSIVE py_lstrip(_)
py_lstrip(txt) ==
    IF txt # << >> /\ Head(txt) = " " THEN py_lstrip(Tail(txt)) ELSE txt

RECURSIVE py_rstrip(_)
py_rstrip(txt) ==
    IF txt # << >> /\ txt[Len(txt)] = " "
    THEN py_rstrip(SubSeq(txt, 1, Len(txt) - 1)) ELSE txt

py_strip(txt) == py_rstrip(py_lstrip(txt))

\* text.lower(), for the letters the answers are made of
py_lower(txt) ==
    [i \in DOMAIN txt |->
        CASE txt[i] = "Y" -> "y" [] txt[i] = "N" -> "n" [] txt[i] = "E" -> "e"
          [] txt[i] = "S" -> "s" [] OTHER -> txt[i]]

\* input().strip().lower()
read_answer(line) == py_lower(py_strip(line))

\* the comparison that sends main to the apply step, accepting all but "n"
is_yes_unless_n(ans) == ans # <<"n">>

\* answer != "y" is the way out; this is its negation
is_yes(ans) == ans = <<"y">>

\* the labels get_core_usage hands to main
MainLabels ==
    { <<"HOT", "COLD">>, <<"HOT", "WARM", "COLD">>, <<"HOT", "HOT", "COLD">>,
      <<"COLD", "COLD">>, <<"HOT", "WARM">> }

\* what the user types at the prompt
PromptLines == { <<"y">>, <<"Y">>, <<" ", "y", " ">>, <<"n">>, << >>, <<"y", "e", "s">> }

\* what taskset -pc can do
ApplyOutcomes ==
    { Completed(0, "new affinity set", ""),
      Completed(1, "", "taskset: failed to set pid's affinity"),
      Completed(1, "no such process", ""),
      Completed(1, "", ""),
      TimeoutExpired, FileNotFoundError }

\* what taskset -p can do, for num_cores = k
QueryOutcomes(k) ==
    {Completed(0, Match(<<HexDigits[m + 1]>>), "") : m \in 1 .. (2 ^ k) - 1}
      \cup { Completed(0, NoMatch, ""), Completed(1, "", "taskset: failed to get pid's affinity"),
              TimeoutExpired, FileNotFoundError }

\* what ps can do: up to MaxPsLines lines, the i-th naming pid i or malformed
PsOutcomes ==
    UNION {{Completed(0, [i \in 1 .. n |-> IF i \in bad THEN BadLine ELSE PsLine(i)], "") :
              bad \in SUBSET (1 .. n)} : n \in 0 .. MaxPsLines}
      \cup { Completed(1, << >>, "ps: error"), TimeoutExpired, FileNotFoundError }

\* the messages of the die() calls a run can reach
NotRoot == "TidyCPU requires root privileges."

NoProcStat == "/proc/stat not found. Are you on Linux?"

PsFailedMsg == "ps failed"

Init ==
    /\ pc = "start"
    /\ raised = ""
    /\ PlanIdle
    /\ UsageIdle
    /\ InputIdle
    /\ MainIdle

\* sys.exit(code), the end of main, an exception that escapes main
Exit(code) ==
    /\ pc' = "exited"
    /\ exit_code' = code

\* die(msg): print the message, sys.exit(1)
Die(msg) ==
    /\ fatal' = msg
    /\ Exit(1)

\* check_root(): die unless os.geteuid() == 0
CheckRoot ==
    /\ pc = "start"
    /\ \E is_root \in BOOLEAN :
         IF is_root THEN pc' = "mode" /\ UNCHANGED <<exit_code, fatal>>
         ELSE Die(NotRoot)
    /\ UNCHANGED <<raised, planVars, usageVars, inputVars>>
    /\ UNCHANGED <<ps_result, queries, processes, actions, answer, apply_i, last_run,
                   calls, pinned, live>>

\* if args.live or args.pid
ChooseMode ==
    /\ pc = "mode"
    /\ live' \in BOOLEAN
    /\ pc' = IF live' THEN "live" ELSE "telemetry"
    /\ UNCHANGED <<raised, planVars, usageVars, inputVars>>
    /\ UNCHANGED <<ps_result, queries, processes, actions, answer, apply_i, last_run,
                   calls, pinned, exit_code, fatal>>

\* live_monitor under "except KeyboardInterrupt", then return: it reads the
\* counters and queries ps and taskset -p, and sets no affinity
LiveMonitor ==
    /\ pc = "live"
    /\ \/ \E end \in {"complete", "KeyboardInterrupt"} : Exit(0) /\ UNCHANGED fatal
       \/ \E msg \in {NoProcStat, PsFailedMsg} : Die(msg)
    /\ UNCHANGED <<raised, planVars, usageVars, inputVars>>
    /\ UNCHANGED <<ps_result, queries, processes, actions, answer, apply_i, last_run,
                   calls, pinned, live>>

\* core_stats = get_core_usage(...): read_proc_stat dies without /proc/stat,
\* and the exceptions of read_proc_stat and get_core_usage escape main
Telemetry ==
    /\ pc = "telemetry"
    /\ \/ \E labels \in MainLabels :
            /\ core_stats' = CoreStatsOf(labels)
            /\ pc' = "inventory"
            /\ UNCHANGED <<raised, exit_code, fatal>>
       \/ /\ Die(NoProcStat)
          /\ UNCHANGED <<raised, core_stats>>
       \/ \E exc \in {"KeyError", "ValueError", "IndexError"} :
            /\ raised' = exc
            /\ Exit(1)
            /\ UNCHANGED <<core_stats, fatal>>
    /\ UNCHANGED <<nprocs, idx, cold_iter, proc, emitted, n_actions, to_concat, n_from>>
    /\ UNCHANGED <<usageVars, inputVars>>
    /\ UNCHANGED <<ps_result, queries, processes, actions, answer, apply_i, last_run,
                   calls, pinned, live>>

\* processes = get_top_processes(n=5, num_cores=num_cores, ...)
Inventory ==
    /\ pc = "inventory"
    /\ \E o \in PsOutcomes :
         LET ps == run("ps", o)
             lines == IF ps.rc = 0 THEN ps.out ELSE << >>
         IN  \E qs \in [1 .. Len(lines) -> QueryOutcomes(Len(core_stats))] :
               LET r == get_top_processes(ps, qs, TopN, Len(core_stats))
               IN  /\ ps_result' = ps
                   /\ queries' = r.queries
                   /\ processes' = r.procs
                   /\ IF r.died THEN Die(PsFailedMsg)
                      ELSE pc' = "plan" /\ UNCHANGED <<exit_code, fatal>>
    /\ UNCHANGED <<raised, planVars, usageVars, inputVars>>
    /\ UNCHANGED <<actions, answer, apply_i, last_run, calls, pinned, live>>

\* actions = build_rebalance_plan(core_stats, processes); if not actions: sys.exit(0)
Plan ==
    /\ pc = "plan"
    /\ actions' = build_rebalance_plan(core_stats, processes)
    /\ IF actions' = << >> THEN Exit(0) ELSE pc' = "prompt" /\ UNCHANGED exit_code
    /\ UNCHANGED <<raised, planVars, usageVars, inputVars>>
    /\ UNCHANGED <<ps_result, queries, processes, answer, apply_i, last_run, calls, pinned,
                   live, fatal>>

\* the prompt: EOFError and KeyboardInterrupt are caught and end the run, any
\* answer but "y" ends it after printing the manual commands
Prompt ==
    /\ pc = "prompt"
    /\ \/ \E exc \in {"EOFError", "KeyboardInterrupt"} :
            /\ answer' = [asked |-> TRUE, exc |-> exc, text |-> << >>]
            /\ Exit(0)
       \/ \E line \in PromptLines :
            /\ answer' = [asked |-> TRUE, exc |-> "", text |-> read_answer(line)]
            /\ IF is_yes(answer'.text) THEN pc' = "apply" /\ UNCHANGED exit_code ELSE Exit(0)
    /\ UNCHANGED <<raised, planVars, usageVars, inputVars>>
    /\ UNCHANGED <<ps_result, queries, processes, actions, apply_i, last_run, calls, pinned,
                   live, fatal>>

\* one element of [apply_action(a) for a in actions]; an exception that
\* escapes run would escape main
ApplyNext ==
    /\ pc = "apply"
    /\ apply_i < Len(actions)
    /\ \E o \in ApplyOutcomes :
         LET a == actions[apply_i + 1]
             cpu_list == cores_to_cpulist(a.to_cores)
             r == run("taskset", o)
         IN  /\ calls' = Append(calls, [pid |-> a.pid, cpu_list |-> cpu_list])
             /\ last_run' = r
             /\ pinned' = IF o.kind = "completed" /\ o.rc = 0
                           THEN [p \in DOMAIN pinned \cup {a.pid} |->
                                   IF p = a.pid THEN cpu_list ELSE pinned[p]]
                           ELSE pinned
             /\ IF r.raised # ""
                THEN /\ raised' = r.raised
                     /\ Exit(1)
                     /\ UNCHANGED <<actions, apply_i>>
                ELSE /\ actions' = [actions EXCEPT ![apply_i + 1] = apply_action(a, r)]
                     /\ apply_i' = apply_i + 1
                     /\ UNCHANGED <<raised, pc, exit_code>>
    /\ UNCHANGED <<planVars, usageVars, inputVars>>
    /\ UNCHANGED <<ps_result, queries, processes, answer, live, fatal>>

\* print_results(results), the last print, the end of main
Finish ==
    /\ pc = "apply"
    /\ apply_i = Len(actions)
    /\ Exit(0)
    /\ UNCHANGED <<raised, planVars, usageVars, inputVars>>
    /\ UNCHANGED <<ps_result, queries, processes, actions, answer, apply_i, last_run,
                   calls, pinned, live, fatal>>

\* Ctrl-C outside the prompt and outside live mode: KeyboardInterrupt is not
\* caught there and ends the run where it stands, with the status of a
\* process killed by SIGINT
Interrupt ==
    /\ pc \in {"telemetry", "inventory", "plan", "apply"}
    /\ raised' = "KeyboardInterrupt"
    /\ Exit(130)
    /\ UNCHANGED <<planVars, usageVars, inputVars>>
    /\ UNCHANGED <<ps_result, queries, processes, actions, answer, apply_i, last_run,
                   calls, pinned, live, fatal>>

Next ==
    \/ CheckRoot
    \/ ChooseMode
    \/ LiveMonitor
    \/ Telemetry
    \/ Inventory
    \/ Plan
    \/ Prompt
    \/ ApplyNext
    \/ Finish
    \/ Interrupt

Spec == Init /\ [][Next]_vars

(***************************************************************************)
(* Helpers: parse_cpulist, and cores_to_cpulist followed by parse_cpulist   *)
(***************************************************************************)
MaxCoreId == 11

MaxListLen == 3

\* text.split(sep) for a one-character sep
RECURSIVE py_split(_, _)
py_split(txt, sep) ==
    IF \A i \in DOMAIN txt : txt[i] # sep THEN <<txt>>
    ELSE LET k == CHOOSE i \in DOMAIN txt :
                     txt[i] = sep /\ \A j \in 1 .. i - 1 : txt[j] # sep
         IN  <<SubSeq(txt, 1, k - 1)>> \o py_split(SubSeq(txt, k + 1, Len(txt)), sep)

\* text.isdigit(), for ASCII text
py_isdigit(txt) == txt # << >> /\ \A i \in DOMAIN txt : digit_val(txt[i], 10) >= 0

\* list(range(lo, hi))
py_range_exclusive(lo, hi) == [i \in 1 .. (hi - lo) |-> lo + i - 1]

\* list(range(lo, hi + 1))
py_range(lo, hi) == [i \in 1 .. (hi - lo + 1) |-> lo + i - 1]

\* the body of the for loop of parse_cpulist for one part: the core-ids it
\* adds; "lo, hi = part.split('-')" and int() raise ValueError
parse_part(part0) ==
    LET part == py_strip(part0)
    IN  IF \E i \in DOMAIN part : part[i] = "-"
        THEN LET bounds == py_split(part, "-")
             IN  IF Len(bounds) # 2 THEN [raised |-> "ValueError", cores |-> << >>]
                 ELSE LET lo == py_int(py_strip(bounds[1]), 10)
                          hi == py_int(py_strip(bounds[2]), 10)
                      IN  IF ~lo.ok \/ ~hi.ok
                          THEN [raised |-> "ValueError", cores |-> << >>]
                          ELSE [raised |-> "", cores |-> py_range(lo.val, hi.val)]
        ELSE IF py_isdigit(part) THEN [raised |-> "", cores |-> <<py_int(part, 10).val>>]
        ELSE [raised |-> "", cores |-> << >>]

\* the for loop of parse_cpulist over the parts left
RECURSIVE parse_parts(_, _)
parse_parts(parts, acc) ==
    IF parts = << >> THEN [raised |-> "", cores |-> acc]
    ELSE LET r == parse_part(Head(parts))
         IN  IF r.raised # "" THEN [raised |-> r.raised, cores |-> << >>]
             ELSE parse_parts(Tail(parts), acc \o r.cores)

\* parse_cpulist: '0,2-5,7' -> [0, 2, 3, 4, 5, 7]
parse_cpulist(text) ==
    LET r == parse_parts(py_split(text, ","), << >>)
    IN  [raised |-> r.raised, cores |-> SortedSeq(SeqRange(r.cores))]

\* the lists of core-ids handed to cores_to_cpulist: unsorted, with
\* duplicates, empty
CoreLists == UNION {[1 .. n -> 0 .. MaxCoreId] : n \in 0 .. MaxListLen}

InitCpulist ==
    /\ pc = "encode"
    /\ raised = ""
    /\ cores_arg \in CoreLists
    /\ cpulist_str = << >>
    /\ parsed = << >>
    /\ stat_file = << >>
    /\ stat_cores = << >>
    /\ hex_mask = << >>
    /\ mask_cores = << >>
    /\ PlanIdle
    /\ UsageIdle
    /\ MainIdle

\* cpulist_str = cores_to_cpulist(cores)
CoresToCpulist ==
    /\ pc = "encode"
    /\ cpulist_str' = cores_to_cpulist(cores_arg)
    /\ pc' = "decode"
    /\ UNCHANGED <<raised, stat_file, stat_cores, hex_mask, mask_cores, cores_arg, parsed>>
    /\ UNCHANGED <<planVars, usageVars, mainVars>>

\* parsed = parse_cpulist(cpulist_str)
ParseCpulist ==
    /\ pc = "decode"
    /\ LET r == parse_cpulist(cpulist_str)
       IN  /\ raised' = r.raised
           /\ parsed' = r.cores
    /\ pc' = "decoded"
    /\ UNCHANGED <<stat_file, stat_cores, hex_mask, mask_cores, cores_arg, cpulist_str>>
    /\ UNCHANGED <<planVars, usageVars, mainVars>>

NextCpulist == CoresToCpulist \/ ParseCpulist

SpecCpulist == InitCpulist /\ [][NextCpulist]_vars

(***************************************************************************)
(* Claims about apply_action and main (Spec)                               *)
(***************************************************************************)
Confirmed == answer.asked /\ answer.exc = "" /\ answer.text = <<"y">>

\* C4: apply_action never raises; status 0 leaves the action applied
\* (manual_only false, error_msg empty); a non-zero status, a timeout or a
\* missing command marks it manual_only with a non-empty error_msg: the
\* primitive's diagnostic text, or the generic message when it gave none.
C4_ApplyOutcome ==
    last_run # None =>
        LET a == actions[Len(calls)]
            r == last_run
        IN  /\ r.raised = ""
            /\ Len(calls) = apply_i
            /\ r.rc = 0 => (~a.manual_only /\ a.error_msg = "")
            /\ r.rc # 0 =>
                 /\ a.manual_only
                 /\ a.error_msg # ""
                 /\ (r.err # "" \/ r.out # "") => a.error_msg \in {r.err, r.out}
                 /\ (r.err = "" /\ r.out = "") => a.error_msg = GenericMsg

\* the primitive failed without any text and the action carries the generic message
C4_Witness ==
    /\ last_run # None
    /\ last_run.rc # 0
    /\ last_run.err = ""
    /\ last_run.out = ""
    /\ actions[Len(calls)].manual_only
    /\ actions[Len(calls)].error_msg = GenericMsg

\* C5: once the plan is confirmed, taskset -pc is issued exactly once per
\* action, in planning order, whatever the earlier outcomes were; a run that
\* is not interrupted ends with every action attempted and exit status 0.
C5_EveryActionAttemptedOnce ==
    /\ Len(calls) <= Len(actions)
    /\ \A i \in DOMAIN calls :
          /\ calls[i].pid = actions[i].pid
          /\ calls[i].cpu_list = cores_to_cpulist(actions[i].to_cores)
    /\ (pc = "exited" /\ Confirmed /\ raised # "KeyboardInterrupt") =>
          /\ Len(calls) = Len(actions)
          /\ raised = ""
          /\ exit_code = 0

\* a confirmed run ended normally although its first action failed; the
\* second was still attempted and succeeded
C5_Witness ==
    /\ pc = "exited"
    /\ Confirmed
    /\ exit_code = 0
    /\ Len(actions) >= 2
    /\ actions[1].manual_only
    /\ ~actions[2].manual_only
    /\ Len(calls) = Len(actions)

\* C6: no taskset -pc is issued before the user answered "y"; a run that
\* ends on a refusal, on end of input or on an interrupt at the prompt has
\* issued none; the affinities set stay set, also when the apply step is
\* interrupted.
C6_NoChangeBeforeYes ==
    /\ (calls # << >> \/ pinned # << >>) => Confirmed
    /\ (pc = "exited" /\ ~Confirmed) => (calls = << >> /\ pinned = << >>)
    /\ \A i \in DOMAIN calls :
          ~actions[i].manual_only =>
             /\ actions[i].pid \in DOMAIN pinned
             /\ pinned[actions[i].pid] = cores_to_cpulist(actions[i].to_cores)

\* the apply step was interrupted after an affinity had been set
C6_Witness ==
    /\ pc = "exited"
    /\ raised = "KeyboardInterrupt"
    /\ Confirmed
    /\ pinned # << >>
    /\ Len(calls) < Len(actions)

PsFailed == ps_result # None /\ ps_result.rc # 0

NormalCompletion ==
    /\ raised = ""
    /\ fatal = ""
    /\ ps_result # None
    /\ ps_result.rc = 0
    /\ \/ actions = << >> /\ ~answer.asked
       \/ actions # << >> /\ answer.asked /\ ~Confirmed /\ calls = << >>
       \/ actions # << >> /\ Confirmed /\ apply_i = Len(actions)

\* the privilege check ended the run before any counter read, inventory
\* query or affinity-setting call
EndedAtPrivilegeCheck ==
    /\ core_stats = << >>
    /\ ps_result = None
    /\ queries = << >>
    /\ calls = << >>
    /\ pinned = << >>

CoreIds(cs) == {cs[i].core_id : i \in DOMAIN cs}

LabelOf(cs, c) == cs[CHOOSE i \in DOMAIN cs : cs[i].core_id = c].label

\* C1: every emitted RebalanceAction has len(to_cores) = len(from_cores).
C1_SameLength ==
    emitted # None => Len(emitted.to_cores) = Len(emitted.from_cores)

\* C2: an action is emitted only for a process with a current core labeled
\* HOT, while some core is labeled COLD, and whose current cores are not all
\* the cores of core_stats; a process that spans the full core set, or that
\* overlaps no HOT core, gets no action.
C2_OnlyConflicting ==
    /\ emitted # None =>
         /\ \E c \in SeqRange(emitted.from_cores) :
               c \in CoreIds(core_stats) /\ LabelOf(core_stats, c) = "HOT"
         /\ \E i \in DOMAIN core_stats : core_stats[i].label = "COLD"
         /\ SeqRange(emitted.from_cores) # CoreIds(core_stats)
    /\ (proc # None /\ SeqRange(proc.current_cores) = CoreIds(core_stats)) => emitted = None
    /\ (proc # None /\ \A c \in SeqRange(proc.current_cores) :
                         LabelOf(core_stats, c) # "HOT") => emitted = None

\* a process on a HOT core got an action while another one of the same call,
\* spanning all cores, can still come
C2_Witness ==
    /\ emitted # None
    /\ Len(emitted.from_cores) >= 2
    /\ \E i \in DOMAIN core_stats : core_stats[i].label = "WARM"

\* C3: the to_cores of the emitted actions, concatenated in emission order,
\* are cold_list[0], cold_list[1], ... cyclically: the j-th core drawn
\* (0-based) is cold_list[j mod |cold_list|].
C3_RoundRobin ==
    LET cold == cold_ids(core_stats)
    IN  \A j \in DOMAIN to_concat : to_concat[j] = cold[((j - 1) % Len(cold)) + 1]

\* C13: when every conflicting process is affined to exactly one core, the
\* k-th conflicting process (1-based, in input order) gets exactly the
\* single core cold_list[(k-1) mod |cold_list|].
C13_SingleCoreRoundRobin ==
    LET cold == cold_ids(core_stats)
    IN  n_from = n_actions =>
          /\ Len(to_concat) = n_actions
          /\ \A k \in 1 .. n_actions : to_concat[k] = cold[((k - 1) % Len(cold)) + 1]
          /\ emitted # None => emitted.to_cores = <<to_concat[n_actions]>>

\* cores {0:HOT, 1:COLD, 2:COLD, 3:WARM}: the third process affined to {0}
\* wraps to core 1 after the first two got cores 1 and 2
C13_Witness ==
    /\ [i \in DOMAIN core_stats |-> core_stats[i].label] = <<"HOT", "COLD", "COLD", "WARM">>
    /\ n_from = n_actions
    /\ to_concat = <<1, 2, 1>>
    /\ emitted # None
    /\ emitted.from_cores = <<0>>
    /\ emitted.to_cores = <<1>>

NoHot == \A i \in DOMAIN core_stats : core_stats[i].label # "HOT"

NoCold == \A i \in DOMAIN core_stats : core_stats[i].label # "COLD"

\* C16: the plan is empty whenever the process list is empty, whenever every
\* core is COLD, and whenever no core is HOT or no core is COLD, for any
\* process affinities.
C16_EmptyPlan ==
    (nprocs = 0 \/ NoHot \/ NoCold) =>
        (n_actions = 0 /\ emitted = None /\ to_concat = << >>)

\* build_rebalance_plan returned after visiting processes on HOT cores with
\* no COLD core to move them to, and the plan is empty
C16_Witness ==
    /\ pc = "planned"
    /\ nprocs >= 2
    /\ NoCold
    /\ ~NoHot
    /\ Len(core_stats) >= 3
    /\ n_actions = 0

\* the conflict condition: HOT overlap non-empty, cold_list non-empty,
\* |current_cores| < |core_stats|
Conflicting(p) ==
    /\ \E c \in SeqRange(p.current_cores) :
          c \in CoreIds(core_stats) /\ LabelOf(core_stats, c) = "HOT"
    /\ ~NoCold
    /\ Len(p.current_cores) < Len(core_stats)

\* C17: the processes are visited in input order and each one that satisfies
\* the conflict condition appends exactly one action to the plan, the others
\* none; the action has the pid of its process, from_cores equal to its
\* current_cores in original order, manual_only false and error_msg empty.
C17_OrderPreservingImage ==
    [][(pc = "plan" /\ pc' = "plan_next") =>
         /\ proc'.pid = idx + 1
         /\ idx' = idx + 1
         /\ IF Conflicting(proc')
            THEN /\ n_actions' = n_actions + 1
                 /\ emitted' # None
                 /\ emitted'.pid = proc'.pid
                 /\ emitted'.from_cores = proc'.current_cores
                 /\ ~emitted'.manual_only
                 /\ emitted'.error_msg = ""
            ELSE /\ n_actions' = n_actions
                 /\ emitted' = None]_vars

\* the third process visited got the second action of the plan: one process
\* before it was skipped
C17_Witness ==
    /\ emitted # None
    /\ idx = 3
    /\ n_actions = 2
    /\ emitted.pid = 3
    /\ Len(emitted.from_cores) >= 2

\* C18: every emitted action, drawn from the cycle or from the fallback, has
\* a non-empty to_cores and every core-id in it is a core of core_stats
\* labeled COLD.
C18_TargetsAreCold ==
    emitted # None =>
        /\ emitted.to_cores # << >>
        /\ \A c \in SeqRange(emitted.to_cores) :
              c \in CoreIds(core_stats) /\ LabelOf(core_stats, c) = "COLD"

\* an action drawn on the fallback path, after the cycle ran out, with a WARM
\* core around
C18_Witness ==
    /\ emitted # None
    /\ cold_iter = << >>
    /\ Len(emitted.to_cores) < Len(emitted.from_cores)
    /\ \E i \in DOMAIN core_stats : core_stats[i].label = "WARM"

\* C19: no action's to_cores holds the same core-id twice, so the core set
\* handed to taskset -pc has exactly as many cores as from_cores.
C19_NoDuplicateTarget ==
    emitted # None =>
        /\ \A i, j \in DOMAIN emitted.to_cores :
              emitted.to_cores[i] = emitted.to_cores[j] => i = j
        /\ Cardinality(SeqRange(emitted.to_cores)) = Len(emitted.from_cores)

(***************************************************************************)
(* Claims about get_core_usage (SpecUsage)                                 *)
(***************************************************************************)
\* C7: every CoreStat returned by get_core_usage has the label its reported
\* (rounded) usage calls for: HOT iff usage >= 80, WARM iff 40 <= usage < 80,
\* COLD iff usage < 40.
C7_LabelMatchesUsage ==
    (pc = "usage_done" /\ raised = "") =>
        \A i \in DOMAIN stats :
            /\ stats[i].label = "HOT" <=> stats[i].usage >= 800
            /\ stats[i].label = "WARM" <=> (400 <= stats[i].usage /\ stats[i].usage < 800)
            /\ stats[i].label = "COLD" <=> stats[i].usage < 400

\* C10: get_core_usage returns exactly one CoreStat for each core-id present
\* in both snapshots, in ascending core-id order, and nothing else, whatever
\* the core-id sets of the two snapshots.
C10_OneStatPerCommonCore ==
    pc = "usage_done" =>
        /\ raised = ""
        /\ [i \in DOMAIN stats |-> stats[i].core_id]
             = SortedSeq(DOMAIN snap1 \cap DOMAIN snap2)

CounterFields == {"user", "nice", "system", "idle", "iowait", "irq", "softirq", "steal"}

Monotonic(s1, s2) == \A f \in CounterFields : s2[f] >= s1[f]

\* the CoreStat of core-id cid in stats
StatOf(cid) == stats[CHOOSE i \in DOMAIN stats : stats[i].core_id = cid]

\* C12: for every core whose counters are all greater than or equal in the
\* second snapshot than in the first, the usage get_core_usage reports lies
\* in [0, 100].
C12_UsageInRange ==
    (pc = "usage_done" /\ raised = "") =>
        \A cid \in DOMAIN snap1 :
            Monotonic(snap1[cid], snap2[cid]) =>
                (0 <= StatOf(cid).usage /\ StatOf(cid).usage <= 1000)

\* a core with growing counters, busy part of the time, is reported strictly
\* between 0 and 100
C12_Witness ==
    /\ pc = "usage_done"
    /\ raised = ""
    /\ \E cid \in DOMAIN snap1 :
          /\ Monotonic(snap1[cid], snap2[cid])
          /\ total_of(snap2[cid]) > total_of(snap1[cid])
          /\ snap2[cid].idle > snap1[cid].idle
          /\ 0 < StatOf(cid).usage
          /\ StatOf(cid).usage < 1000

\* C15: a core whose counter sum is the same in both snapshots is reported
\* with usage exactly 0.0 and label COLD, and get_core_usage does not raise
\* on it.
C15_ZeroDelta ==
    pc = "usage_done" =>
        /\ raised # "ZeroDivisionError"
        /\ raised = "" =>
             \A cid \in DOMAIN snap1 :
                 total_of(snap1[cid]) = total_of(snap2[cid]) =>
                     (StatOf(cid).usage = 0 /\ StatOf(cid).label = "COLD")

\* a core whose counters moved from busy to idle with an unchanged sum is
\* reported 0.0 and COLD
C15_Witness ==
    /\ pc = "usage_done"
    /\ raised = ""
    /\ \E cid \in DOMAIN snap1 :
          /\ snap1[cid] # snap2[cid]
          /\ total_of(snap1[cid]) = total_of(snap2[cid])
          /\ StatOf(cid).usage = 0
          /\ StatOf(cid).label = "COLD"

(***************************************************************************)
(* Claims about the core-list encoding (SpecCpulist)                       *)
(***************************************************************************)
\* the maximal runs of consecutive ids of a set of core-ids, as <<start, end>>
\* pairs in ascending order
MaximalRuns(S) ==
    LET starts == SortedSeq({c \in S : c - 1 \notin S})
        end_of(a) == CHOOSE b \in S :
                        /\ b >= a
                        /\ \A c \in a .. b : c \in S
                        /\ b + 1 \notin S
    IN  [i \in DOMAIN starts |-> <<starts[i], end_of(starts[i])>>]

\* the minimal-range text: each maximal run as 'start-end', each isolated id
\* alone, comma-separated
MinimalRangeForm(S) ==
    LET runs == MaximalRuns(S)
        text(r) == IF r[1] = r[2] THEN py_str(r[1])
                   ELSE py_str(r[1]) \o <<"-">> \o py_str(r[2])
    IN  join([i \in DOMAIN runs |-> text(runs[i])], <<",">>)

\* C14: parse_cpulist(cores_to_cpulist(cores)) = sorted(set(cores)) for every
\* list of non-negative core-ids, empty, single, unsorted or with duplicates,
\* and cores_to_cpulist emits the minimal-range form.
C14_RoundTrip ==
    /\ pc \in {"decode", "decoded"} => cpulist_str = MinimalRangeForm(SeqRange(cores_arg))
    /\ pc = "decoded" =>
         /\ raised = ""
         /\ parsed = SortedSeq(SeqRange(cores_arg))

\* an unsorted list with a duplicate and a run reaching a two-digit id went
\* through both conversions
C14_Witness ==
    /\ pc = "decoded"
    /\ cores_arg = <<10, 9, 10>>
    /\ cpulist_str = <<"9", "-", "1", "0">>
    /\ parsed = <<9, 10>>

(***************************************************************************)
(* Claims about input validation (SpecInput)                               *)
(***************************************************************************)
IsNumber(txt) == txt # << >> /\ \A i \in DOMAIN txt : digit_val(txt[i], 10) >= 0

WellFormed(line) ==
    /\ line # OtherLine
    /\ Len(line.fields) >= 4
    /\ \A i \in DOMAIN line.fields : IsNumber(line.fields[i])

IsHexMask(txt) ==
    LET body == SelectSeq(txt, LAMBDA ch : ch # ",")
    IN  body # << >> /\ \A i \in DOMAIN body : digit_val(body[i], 16) >= 0

\* C9: read_proc_stat never raises on a malformed per-core line (too few
\* fields, a field that is no number): it still returns every well-formed
\* core, with the absent trailing fields at zero; mask_to_cores returns the
\* empty list for a mask that is not hexadecimal.
C9_ValidationNeverRaises ==
    /\ pc = "stat_done" =>
         /\ raised = ""
         /\ \A i \in DOMAIN stat_file :
               WellFormed(stat_file[i]) =>
                 /\ stat_file[i].cid \in DOMAIN stat_cores
                 /\ Len(stat_file[i].fields) < 8 => stat_cores[stat_file[i].cid].steal = 0
    /\ (pc = "mask_done" /\ ~IsHexMask(hex_mask)) => mask_cores = << >>

====
